---- MODULE Spec2Model ----
(***************************************************************************)
(* A model of claude-wt (src/claude_wt/cli.py): the commands new, resume,  *)
(* clean, list and init acting on a git repository.  The repository is the *)
(* state: its branches, the branch checked out in the main checkout, the   *)
(* linked-worktree registry, the directories on disk and the ignore file.  *)
(* Strings are sequences of one-character strings, so that the slicing,    *)
(* prefix tests and splitting the code performs are computed, not assumed. *)
(***************************************************************************)
EXTENDS Integers, Sequences, FiniteSets, TLC

(* ------------------------------ bounds --------------------------------- *)
\* number of explicit session names the user may pass to --name
NumIdents == 1
\* most git operations that fail for outside reasons within one command
MaxFaults == 2
\* longest registry text, in lines, given to the parser on its own
MaxLines == 4
\* longest identifier, in pieces, given to the naming functions on their own
MaxTokens == 3
\* number of new processes run at the same time
NumProcs == 2
\* longest ignore file, in lines, that init is run on
MaxIgnoreLines == 2

(* ------------------------------ strings -------------------------------- *)
NL == "\n"
EMPTY == << >>

PREFIX == <<"c","l","a","u","d","e","-","w","t","-">>
REFS_HEADS == <<"r","e","f","s","/","h","e","a","d","s","/">>
WORKTREE_KW == <<"w","o","r","k","t","r","e","e"," ">>
BRANCH_KW == <<"b","r","a","n","c","h"," ">>
HEAD_LINE == <<"H","E","A","D"," ","0">>
DETACHED_LINE == <<"d","e","t","a","c","h","e","d">>
PRUNABLE_LINE == <<"p","r","u","n","a","b","l","e">>
RepoRoot == <<"/","r">>
WT_SUBDIR == <<"/",".","c","l","a","u","d","e","-","w","t","/","w","o","r","k","t","r","e","e","s">>
ForeignPath == <<"/","w">>
MAIN == <<"m","a","i","n">>
DEV == <<"d","e","v">>
ORIGIN == <<"o","r","i","g","i","n">>
UPSTREAM == <<"u","p">>

\* str.startswith
StartsWith(s, p) == Len(s) >= Len(p) /\ SubSeq(s, 1, Len(p)) = p

\* s[n:]
DropChars(s, n) == SubSeq(s, n + 1, Len(s))

\* index of the first newline of s, 0 when there is none
FirstNewline(s) ==
    IF \E i \in 1..Len(s) : s[i] = NL
    THEN CHOOSE i \in 1..Len(s) : s[i] = NL /\ \A j \in 1..(i - 1) : s[j] # NL
    ELSE 0

\* str.split("\n"): always at least one piece, the last one possibly empty
RECURSIVE SplitLines(_)
SplitLines(s) ==
    LET k == FirstNewline(s)
    IN IF k = 0 THEN << s >>
       ELSE << SubSeq(s, 1, k - 1) >> \o SplitLines(SubSeq(s, k + 1, Len(s)))

\* "\n".join of lines, each followed by a newline
RECURSIVE JoinLines(_)
JoinLines(ls) ==
    IF ls = << >> THEN EMPTY
    ELSE Head(ls) \o << NL >> \o JoinLines(Tail(ls))

(* --------------------------- naming (SessionNamer) --------------------- *)
IdentPool == << <<"b">>, <<"a">>, <<"c">>, <<"d">> >>
Idents == { IdentPool[i] : i \in 1..NumIdents }
\* the token datetime.now().strftime yields when no name is given
Timestamps == { <<"2">> }
AllIds == Idents \cup Timestamps

\* suffix = name or timestamp
Suffix(name, ts) == IF name # EMPTY THEN name ELSE ts

\* f"claude-wt-{suffix}"
BranchName(suffix) == PREFIX \o suffix

\* repo_root / ".claude-wt" / "worktrees"
WtRoot == RepoRoot \o WT_SUBDIR

\* repo_root / ".claude-wt" / "worktrees" / branch_name
WtPath(branchName) == WtRoot \o <<"/">> \o branchName

SourceBranches == { MAIN, DEV }

(* ------------------------------- state --------------------------------- *)
VARIABLES
    branches,   \* local branches of the repository
    head,       \* branch checked out in the main checkout
    registry,   \* linked worktrees: set of [path, branch], branch EMPTY if detached
    dirs,       \* directories that exist on disk
    gitignore,  \* the ignore file: [exists, content]
    last,       \* what the command that just ran did and returned, NoResult
                \* once its process has ended
    prev,       \* the session the command before created: [id, path]
    created,    \* identifiers created by new and not cleaned since
    tampered,   \* identifiers whose worktree directory was deleted out-of-band
    input,      \* a registry text handed to the parsers on its own
    pstate,     \* "idle", "input", "parsed" or "looked"
    parsed,     \* the records ParseWorktrees returned for input
    lookup,     \* what FindWorktree returned for input
    ident,      \* an identifier handed to the naming functions on their own
    shown,      \* what list makes of the branch of ident: [stripped, rows]
    race        \* the new processes running at the same time: [id, procs]

vars == << branches, head, registry, dirs, gitignore, last, prev, created, tampered,
          input, pstate, parsed, lookup, ident, shown, race >>

pvars == << input, pstate, parsed, lookup, ident, shown, race >>

(* ----------------------------- git itself ------------------------------ *)
\* branches checked out somewhere: git refuses to delete or re-checkout them
LinkedCheckedOut(reg) == { wt.branch : wt \in reg } \ { EMPTY }

CheckedOut(reg, hd) == { hd } \cup LinkedCheckedOut(reg)

RegPaths(reg) == { wt.path : wt \in reg }

\* the registry without the worktree at path p
WithoutPath(reg, p) == { wt \in reg : wt.path # p }

\* one git operation of a command's log: ok tells whether it succeeded,
\* fault whether it was made to fail for a reason outside the repository
Op(name, tgt, ok, envOk) == [op |-> name, tgt |-> tgt, ok |-> ok, fault |-> ~envOk]

OpNames(ops) == { ops[i].op : i \in 1..Len(ops) }

FailedOps(ops) == { ops[i].op : i \in { j \in 1..Len(ops) : ~ops[j].ok } }

FaultCount(ops) == Cardinality({ i \in 1..Len(ops) : ops[i].fault })

(* ------------------------------ ordering ------------------------------- *)
\* the characters of branch names and paths, in code point order
Alphabet == << "+", "-", ".", "/", "0", "1", "2", "a", "b", "c", "d", "e", "f", "h",
               "i", "k", "l", "m", "n", "o", "r", "s", "t", "u", "v", "w" >>

CodePoint(c) == CHOOSE i \in 1..Len(Alphabet) : Alphabet[i] = c

\* s < t for Python strings
RECURSIVE StrLess(_, _)
StrLess(s, t) ==
    IF t = EMPTY THEN FALSE
    ELSE IF s = EMPTY THEN TRUE
    ELSE IF Head(s) = Head(t) THEN StrLess(Tail(s), Tail(t))
    ELSE CodePoint(Head(s)) < CodePoint(Head(t))

\* the least string of a non-empty set
MinStr(S) == CHOOSE x \in S : \A y \in S \ { x } : StrLess(x, y)

RECURSIVE SortStrings(_)
SortStrings(S) ==
    IF S = { } THEN << >>
    ELSE << MinStr(S) >> \o SortStrings(S \ { MinStr(S) })

(* ------------------- git worktree list --porcelain --------------------- *)
\* one record of the porcelain output: path line, HEAD line, branch or
\* detached line, a prunable line when the directory is gone, a blank line
PorcelainRecord(path, branch, present) ==
    << WORKTREE_KW \o path, HEAD_LINE >>
    \o (IF branch = EMPTY THEN << DETACHED_LINE >>
        ELSE << BRANCH_KW \o REFS_HEADS \o branch >>)
    \o (IF present THEN << >> ELSE << PRUNABLE_LINE >>)
    \o << EMPTY >>

\* the linked worktrees in the order git lists them: by path
RECURSIVE PorcelainLinked(_, _, _)
PorcelainLinked(paths, reg, ds) ==
    IF paths = << >> THEN << >>
    ELSE LET wt == CHOOSE w \in reg : w.path = Head(paths)
         IN PorcelainRecord(wt.path, wt.branch, wt.path \in ds)
            \o PorcelainLinked(Tail(paths), reg, ds)

\* stdout of git worktree list --porcelain: the main checkout first
WorktreeListText(reg, hd, ds) ==
    JoinLines(PorcelainRecord(RepoRoot, hd, TRUE)
              \o PorcelainLinked(SortStrings(RegPaths(reg)), reg, ds))

(* ------------------------- the registry parsers ------------------------ *)
\* a parsed record is the dict current_wt: a path key once a worktree line
\* was seen, a branch key once a branch line was seen
NoWt == [hasPath |-> FALSE, path |-> EMPTY, hasBranch |-> FALSE, branch |-> EMPTY]

\* truth value of the dict: it has at least one key
Truthy(wt) == wt.hasPath \/ wt.hasBranch

\* current_wt = {"path": line[9:]}
NewWt(line) ==
    [hasPath |-> TRUE, path |-> DropChars(line, 9), hasBranch |-> FALSE, branch |-> EMPTY]

\* line[7:], the value stored under "branch"
BranchField(line) == DropChars(line, 7)

\* current_wt["branch"] = line[7:]
SetBranch(wt, line) == [wt EXCEPT !.hasBranch = TRUE, !.branch = BranchField(line)]

\* inside the loop, on a worktree line: if current_wt: worktrees.append(current_wt)
FlushPrevious(acc, cur) == IF Truthy(cur) THEN Append(acc, cur) ELSE acc

\* a variant that forgets the record pending at the end of the input
FlushLastDropped(acc, cur) == acc

\* after the loop: if current_wt: worktrees.append(current_wt)
FlushLast(acc, cur) == IF Truthy(cur) THEN Append(acc, cur) ELSE acc

\* the loop of list and of clean --all over result.stdout.split("\n"),
\* with the flush of the last record after it
RECURSIVE ParseLoop(_, _, _)
ParseLoop(lines, cur, acc) ==
    IF lines = << >> THEN FlushLast(acc, cur)
    ELSE LET line == Head(lines) IN
        IF StartsWith(line, WORKTREE_KW) THEN
            ParseLoop(Tail(lines), NewWt(line), FlushPrevious(acc, cur))
        ELSE IF StartsWith(line, BRANCH_KW) THEN
            ParseLoop(Tail(lines), SetBranch(cur, line), acc)
        ELSE ParseLoop(Tail(lines), cur, acc)

ParseWorktrees(text) == ParseLoop(SplitLines(text), NoWt, << >>)

\* wt.get("branch", "")
GetBranch(wt) == IF wt.hasBranch THEN wt.branch ELSE EMPTY

\* a variant without the prefix filter
IsClaudeWtAny(wt) == TRUE

\* wt.get("branch", "").startswith("claude-wt-")
IsClaudeWt(wt) == StartsWith(GetBranch(wt), PREFIX)

\* a variant with the comparison inverted
ResumeMatchInverted(wt, full) == Truthy(wt) /\ wt.hasBranch /\ wt.branch # full

\* current_wt and current_wt.get("branch") == full_branch_name
ResumeMatch(wt, full) == Truthy(wt) /\ wt.hasBranch /\ wt.branch = full

NotFoundWt == [found |-> FALSE, path |-> EMPTY]

\* the loop of resume, which stops at the first matching record, and the
\* check of the last record after it
RECURSIVE ResumeLoop(_, _, _)
ResumeLoop(lines, cur, full) ==
    IF lines = << >> THEN
        IF ResumeMatch(cur, full) THEN [found |-> TRUE, path |-> cur.path]
        ELSE NotFoundWt
    ELSE LET line == Head(lines) IN
        IF StartsWith(line, WORKTREE_KW) THEN
            IF ResumeMatch(cur, full) THEN [found |-> TRUE, path |-> cur.path]
            ELSE ResumeLoop(Tail(lines), NewWt(line), full)
        ELSE IF StartsWith(line, BRANCH_KW) THEN
            ResumeLoop(Tail(lines), SetBranch(cur, line), full)
        ELSE ResumeLoop(Tail(lines), cur, full)

FindWorktree(text, full) == ResumeLoop(SplitLines(text), NoWt, full)

(* ------------------------------ .gitignore ----------------------------- *)
IGNORE_ENTRY == <<".","c","l","a","u","d","e","-","w","t","/","w","o","r","k","t","r","e","e","s">>
IGNORE_PATTERNS ==
    { IGNORE_ENTRY,
      IGNORE_ENTRY \o <<"/">>,
      <<".","c","l","a","u","d","e","-","w","t","/","*">>,
      <<".","c","l","a","u","d","e","-","w","t","/","*","*">> }
INIT_COMMENT == <<"#"," ","C","l","a","u","d","e"," ","w","o","r","k","t","r","e","e"," ",
                  "m","a","n","a","g","e","m","e","n","t">>

Whitespace == { " ", NL, "\t", "\r" }

RECURSIVE LStrip(_)
LStrip(s) == IF s # EMPTY /\ Head(s) \in Whitespace THEN LStrip(Tail(s)) ELSE s

RECURSIVE RStrip(_)
RStrip(s) ==
    IF s # EMPTY /\ s[Len(s)] \in Whitespace THEN RStrip(SubSeq(s, 1, Len(s) - 1)) ELSE s

\* str.strip()
Strip(s) == LStrip(RStrip(s))

\* a variant of the guard that lets every file pass
CheckGitignoreSkipped(gi) == TRUE

\* check_gitignore: some stripped line of the file is one of the patterns
CheckGitignore(gi) ==
    /\ gi.exists
    /\ LET lines == SplitLines(gi.content)
       IN \E i \in 1..Len(lines) : Strip(lines[i]) \in IGNORE_PATTERNS

(* ------------------------------ sync ----------------------------------- *)
\* what git remote can print: a failure, no remote, or some remotes
RemoteOutputs ==
    { [rc |-> 1, names |-> << >>],
      [rc |-> 0, names |-> << >>],
      [rc |-> 0, names |-> << ORIGIN >>],
      [rc |-> 0, names |-> << UPSTREAM, ORIGIN >>],
      [rc |-> 0, names |-> << UPSTREAM >>] }

\* what the surroundings decide during sync: which git operations fail for
\* outside reasons, and how the remote is configured
Bit(b) == IF b THEN 0 ELSE 1

SyncEnvs ==
    { env \in [switchOk : BOOLEAN, remote : RemoteOutputs, upstream : BOOLEAN,
               fetchOk : BOOLEAN, pullOk : BOOLEAN] :
        Bit(env.switchOk) + Bit(env.remote.rc = 0) + Bit(env.fetchOk) + Bit(env.pullOk)
            <= MaxFaults }

SeqToSet(q) == { q[i] : i \in 1..Len(q) }

\* get_remote_info: the remote to use (EMPTY for None) and whether the
\* branch has an upstream
GetRemoteInfo(env) ==
    LET stdout == Strip(JoinLines(env.remote.names))
    IN IF env.remote.rc # 0 \/ stdout = EMPTY
       THEN [remote |-> EMPTY, hasUpstream |-> FALSE]
       ELSE LET remotes == SplitLines(stdout)
            IN [remote |-> IF ORIGIN \in SeqToSet(remotes) THEN ORIGIN ELSE remotes[1],
                hasUpstream |-> env.upstream]

\* git switch succeeds on an existing branch that no linked worktree holds
SwitchSucceeds(src, env) ==
    env.switchOk /\ src \in branches /\ src \notin LinkedCheckedOut(registry)

\* a variant that runs the fetch with check=True
FetchFailureChecked == TRUE

\* whether a failed fetch ends sync_with_remote by an exception
FetchFailureRaises == FALSE

\* a variant that runs the pull with check=True
PullFailureChecked == TRUE

\* whether a rejected pull ends sync_with_remote by an exception
PullFailureRaises == FALSE

\* a variant that pulls whether or not the branch has an upstream
PullUnguarded(hasUpstream) == TRUE

\* if has_upstream: the pull is run only for a branch with an upstream
PullGuard(hasUpstream) == hasUpstream

\* sync_with_remote: switch, look the remote up, fetch, pull
SyncWithRemote(src, env) ==
    LET sw == SwitchSucceeds(src, env)
        info == GetRemoteInfo(env)
        swOp == << Op("switch", src, sw, env.switchOk) >>
        rmOp == << Op("remote", info.remote, env.remote.rc = 0, env.remote.rc = 0) >>
        upOp == << Op("upstream", src, info.hasUpstream, TRUE) >>
        ftOp == << Op("fetch", EMPTY, env.fetchOk, env.fetchOk) >>
        plOp == << Op("pull", src, env.pullOk, env.pullOk) >>
    IN IF ~sw THEN
           [raised |-> TRUE, head |-> head, ops |-> swOp, outcome |-> "switch-failed"]
       ELSE IF info.remote = EMPTY THEN
           [raised |-> FALSE, head |-> src, ops |-> swOp \o rmOp, outcome |-> "no-remote"]
       ELSE IF ~env.fetchOk THEN
           [raised |-> FetchFailureRaises, head |-> src,
            ops |-> swOp \o rmOp \o upOp \o ftOp, outcome |-> "fetch-failed"]
       ELSE IF ~PullGuard(info.hasUpstream) THEN
           [raised |-> FALSE, head |-> src,
            ops |-> swOp \o rmOp \o upOp \o ftOp, outcome |-> "no-upstream"]
       ELSE IF ~env.pullOk THEN
           [raised |-> PullFailureRaises, head |-> src,
            ops |-> swOp \o rmOp \o upOp \o ftOp \o plOp, outcome |-> "pull-rejected"]
       ELSE
           [raised |-> FALSE, head |-> src,
            ops |-> swOp \o rmOp \o upOp \o ftOp \o plOp, outcome |-> "synced"]

(* --------------------------- command results --------------------------- *)
\* no session was created or cleaned by the command before
NoCreate == [id |-> EMPTY, path |-> EMPTY, cleaned |-> EMPTY]

\* what a command did: the git operations it issued, its exit status, the
\* directory the agent was launched in, the rows list printed, the --branch
\* override new was given and the start point it gave to git branch.  afterCreate
\* tells that the command before it was a successful new of the same
\* identifier.
Result(cmd, arg) ==
    [cmd |-> cmd, arg |-> arg, all |-> FALSE, exit |-> 0, ops |-> << >>, sync |-> "none",
     path |-> EMPTY, launched |-> FALSE, continued |-> FALSE, rows |-> << >>,
     override |-> EMPTY, forked |-> EMPTY,
     afterCreate |-> arg # EMPTY /\ prev.id = arg,
     afterClean |-> arg # EMPTY /\ prev.cleaned = arg]

NoResult ==
    [cmd |-> "none", arg |-> EMPTY, all |-> FALSE, exit |-> 0, ops |-> << >>,
     sync |-> "none",
     path |-> EMPTY, launched |-> FALSE, continued |-> FALSE, rows |-> << >>,
     override |-> EMPTY, forked |-> EMPTY,
     afterCreate |-> FALSE, afterClean |-> FALSE]

(* -------------------------------- new ---------------------------------- *)
\* git show-ref --verify --quiet refs/heads/<name>
ShowRef(name) == name \in branches

\* a variant that creates the branch without looking at show-ref
BranchAlwaysCreated(name) == TRUE

\* the branch is created when show-ref fails
BranchNeeded(name) == ~ShowRef(name)

\* a variant that adds the worktree on every run
WorktreeAlwaysAdded(path, ds) == TRUE

\* the worktree is added when the path does not exist
WorktreeNeeded(path, ds) == path \notin ds

\* git worktree add succeeds when neither the path nor the branch is
\* already registered
WorktreeAddSucceeds(path, name, reg, hd, brs, ok) ==
    /\ ok
    /\ name \in brs
    /\ path \notin RegPaths(reg)
    /\ name \notin CheckedOut(reg, hd)

\* new, from the branch creation on, given the outcome sr of the sync
NewFrom(source, suffix, sr, branchOk, addOk) ==
    LET name == BranchName(suffix)
        path == WtPath(name)
        exists == ShowRef(name)
        mkBranch == BranchNeeded(name)
        ops1 == sr.ops \o << Op("show-ref", name, exists, TRUE) >>
                \o (IF mkBranch THEN << Op("create-branch", name, branchOk, branchOk) >> ELSE << >>)
        brs1 == IF mkBranch /\ branchOk THEN branches \cup { name } ELSE branches
        ds1 == dirs \cup { WtRoot }
        mkWt == WorktreeNeeded(path, ds1)
        addOk1 == WorktreeAddSucceeds(path, name, registry, sr.head, brs1, addOk)
        ops2 == ops1 \o (IF mkWt THEN << Op("worktree-add", name, addOk1, addOk) >> ELSE << >>)
        forked == IF mkBranch THEN source ELSE EMPTY
    IN IF mkBranch /\ ~branchOk THEN
           [exit |-> 1, ops |-> ops1, branches |-> branches, registry |-> registry,
            dirs |-> dirs, path |-> EMPTY, launched |-> FALSE, forked |-> forked]
       ELSE IF mkWt /\ ~addOk1 THEN
           [exit |-> 1, ops |-> ops2, branches |-> brs1, registry |-> registry,
            dirs |-> ds1, path |-> EMPTY, launched |-> FALSE, forked |-> forked]
       ELSE
           [exit |-> 0, ops |-> ops2, branches |-> brs1,
            registry |-> IF mkWt THEN registry \cup { [path |-> path, branch |-> name] }
                         ELSE registry,
            dirs |-> ds1 \cup { path }, path |-> path, launched |-> TRUE,
            forked |-> forked]

\* which of git branch and git worktree add may still fail for outside
\* reasons after the sync went as sr tells
TailEnvs(sr) ==
    { env \in [branchOk : BOOLEAN, addOk : BOOLEAN] :
        FaultCount(sr.ops) + Bit(env.branchOk) + Bit(env.addOk) <= MaxFaults }

\* one run of new past the guard: what it does to the repository and what
\* it returns
NewRun(source, suffix, sr, env) ==
    IF sr.raised THEN
        [exit |-> 1, ops |-> sr.ops, branches |-> branches, registry |-> registry,
         dirs |-> dirs, path |-> EMPTY, launched |-> FALSE, head |-> sr.head,
         sync |-> sr.outcome, forked |-> EMPTY]
    ELSE LET r == NewFrom(source, suffix, sr, env.branchOk, env.addOk)
         IN [exit |-> r.exit, ops |-> r.ops, branches |-> r.branches,
             registry |-> r.registry, dirs |-> r.dirs, path |-> r.path,
             launched |-> r.launched, head |-> sr.head, sync |-> sr.outcome,
             forked |-> r.forked]

\* source_branch = branch, or the current branch when none is given
SourceBranch(branch) == IF branch # EMPTY THEN branch ELSE head

New(branch, name, ts) ==
    IF ~CheckGitignore(gitignore) THEN
        /\ last' = [Result("new", Suffix(name, ts)) EXCEPT !.exit = 1, !.override = branch]
        /\ UNCHANGED << branches, head, registry, dirs, gitignore, created, tampered >>
    ELSE
        \E sr \in { SyncWithRemote(SourceBranch(branch), env) : env \in SyncEnvs } :
        \E r \in { NewRun(SourceBranch(branch), Suffix(name, ts), sr, env) :
                      env \in TailEnvs(sr) } :
            /\ last' = [Result("new", Suffix(name, ts)) EXCEPT
                            !.exit = r.exit, !.ops = r.ops, !.sync = r.sync,
                            !.path = r.path, !.launched = r.launched,
                            !.override = branch, !.forked = r.forked]
            /\ head' = r.head
            /\ branches' = r.branches
            /\ registry' = r.registry
            /\ dirs' = r.dirs
            /\ created' = IF r.exit = 0 THEN created \cup { Suffix(name, ts) } ELSE created
            /\ UNCHANGED << gitignore, tampered >>

(* ------------------------------- resume -------------------------------- *)
\* a variant in which listing the worktrees prunes the records whose
\* directory is gone
RegistryPruned(reg, ds) == { wt \in reg : wt.path \in ds }

\* the registry after git worktree list --porcelain: the listing reports
\* the records whose directory is gone as prunable and keeps them
RegistryAfterList(reg, ds) == reg

\* not (not wt_path or not wt_path.exists())
Resumable(f, ds) == f.found /\ f.path \in ds

Resume(id) ==
    LET full == BranchName(id)
        text == WorktreeListText(registry, head, dirs)
        f == FindWorktree(text, full)
        res == [Result("resume", id) EXCEPT !.ops = << Op("worktree-list", EMPTY, TRUE, TRUE) >>]
    IN /\ last' = IF Resumable(f, dirs)
                  THEN [res EXCEPT !.path = f.path, !.launched = TRUE, !.continued = TRUE]
                  ELSE [res EXCEPT !.exit = 1]
       /\ registry' = RegistryAfterList(registry, dirs)
       /\ UNCHANGED << branches, head, dirs, gitignore, created, tampered >>

(* -------------------------------- list --------------------------------- *)
\* insert a record after the records whose key is not greater (stable)
RECURSIVE InsertByBranch(_, _)
InsertByBranch(sorted, wt) ==
    IF sorted = << >> THEN << wt >>
    ELSE IF StrLess(GetBranch(wt), GetBranch(Head(sorted))) THEN << wt >> \o sorted
    ELSE << Head(sorted) >> \o InsertByBranch(Tail(sorted), wt)

\* sorted(claude_worktrees, key=lambda x: x.get("branch", ""))
RECURSIVE SortByBranch(_)
SortByBranch(wts) ==
    IF wts = << >> THEN << >>
    ELSE InsertByBranch(SortByBranch(SubSeq(wts, 1, Len(wts) - 1)), wts[Len(wts)])

\* str.replace(old, ""), every occurrence from the left
RECURSIVE RemoveAll(_, _)
RemoveAll(s, old) ==
    IF s = EMPTY THEN EMPTY
    ELSE IF StartsWith(s, old) THEN RemoveAll(DropChars(s, Len(old)), old)
    ELSE << Head(s) >> \o RemoveAll(Tail(s), old)

\* session_name = wt["branch"].replace("claude-wt-", "")
SessionName(branch) == RemoveAll(branch, PREFIX)

RECURSIVE FilterClaudeWt(_)
FilterClaudeWt(wts) ==
    IF wts = << >> THEN << >>
    ELSE (IF IsClaudeWt(Head(wts)) THEN << Head(wts) >> ELSE << >>)
         \o FilterClaudeWt(Tail(wts))

\* one row of the table: status, session, path
Row(wt, ds) ==
    [active |-> wt.path \in ds,
     session |-> SessionName(GetBranch(wt)),
     branch |-> GetBranch(wt),
     path |-> wt.path]

\* the rows list prints, for a registry text
ListRows(text, ds) ==
    LET wts == SortByBranch(FilterClaudeWt(ParseWorktrees(text)))
    IN [i \in 1..Len(wts) |-> Row(wts[i], ds)]

List ==
    /\ last' = [Result("list", EMPTY) EXCEPT
                    !.ops = << Op("worktree-list", EMPTY, TRUE, TRUE) >>,
                    !.rows = ListRows(WorktreeListText(registry, head, dirs), dirs)]
    /\ registry' = RegistryAfterList(registry, dirs)
    /\ UNCHANGED << branches, head, dirs, gitignore, created, tampered >>

(* -------------------------------- clean -------------------------------- *)
\* git worktree remove --force succeeds on a registered worktree
RemoveSucceeds(path, reg, ok) == ok /\ path \in RegPaths(reg)

\* git branch -D succeeds on an existing branch that no worktree holds
DeleteSucceeds(name, brs, reg, hd, ok) ==
    ok /\ name \in brs /\ name \notin CheckedOut(reg, hd)

\* a variant that never removes the worktree
RemovalSkipped(path, ds) == FALSE

\* a variant that removes the worktree without looking at the path
RemovalAlways(path, ds) == TRUE

\* the worktree is removed when its path exists
RemovalNeeded(path, ds) == path \in ds

\* a variant that runs git branch -D outside the inner try
DeleteFailureChecked == TRUE

\* whether a failed git branch -D ends clean <branch_name> by an exception:
\* the inner except prints "not found" and goes on
DeleteFailureRaises == FALSE

\* clean <branch_name>
CleanOne(id, rmOk, delOk) ==
    LET full == BranchName(id)
        path == WtPath(full)
        rm == RemovalNeeded(path, dirs)
        rmDone == RemoveSucceeds(path, registry, rmOk)
        reg1 == IF rm /\ rmDone THEN WithoutPath(registry, path) ELSE registry
        ds1 == IF rm /\ rmDone THEN dirs \ { path } ELSE dirs
        ops1 == IF rm THEN << Op("worktree-remove", path, rmDone, rmOk) >> ELSE << >>
        delDone == DeleteSucceeds(full, branches, reg1, head, delOk)
    IN IF rm /\ ~rmDone THEN
           [exit |-> 1, ops |-> ops1, branches |-> branches, registry |-> registry,
            dirs |-> dirs]
       ELSE
           [exit |-> IF ~delDone /\ DeleteFailureRaises THEN 1 ELSE 0,
            ops |-> ops1 \o << Op("delete-branch", full, delDone, delOk) >>,
            branches |-> IF delDone THEN branches \ { full } ELSE branches,
            registry |-> reg1, dirs |-> ds1]

\* one line of git branch --list: "* " marks the branch of this checkout,
\* "+ " a branch checked out in a linked worktree, two blanks any other
BranchListLine(name, reg, hd) ==
    (IF name = hd THEN << "*", " " >>
     ELSE IF name \in LinkedCheckedOut(reg) THEN << "+", " " >>
     ELSE << " ", " " >>) \o name

\* stdout of git branch --list "claude-wt-*"
BranchListText(brs, reg, hd) ==
    LET names == SortStrings({ b \in brs : StartsWith(b, PREFIX) })
    IN JoinLines([i \in 1..Len(names) |-> BranchListLine(names[i], reg, hd)])

\* str.lstrip("* ")
RECURSIVE LStripStarBlank(_)
LStripStarBlank(s) ==
    IF s # EMPTY /\ Head(s) \in { "*", " " } THEN LStripStarBlank(Tail(s)) ELSE s

\* [b.strip().lstrip("* ") for b in stdout.split("\n") if b.strip()]
RECURSIVE BranchNamesOf(_)
BranchNamesOf(lines) ==
    IF lines = << >> THEN << >>
    ELSE (IF Strip(Head(lines)) # EMPTY THEN << LStripStarBlank(Strip(Head(lines))) >>
          ELSE << >>)
         \o BranchNamesOf(Tail(lines))

ParseBranchList(text) == BranchNamesOf(SplitLines(text))

\* the loop over the parsed worktrees: remove those of claude-wt branches,
\* going on after a failed removal
RECURSIVE RemoveLoop(_, _, _)
RemoveLoop(wts, st, rmFail) ==
    IF wts = << >> THEN st
    ELSE LET wt == Head(wts) IN
        IF IsClaudeWt(wt) THEN
            LET done == RemoveSucceeds(wt.path, st.registry, wt.path \notin rmFail)
            IN RemoveLoop(Tail(wts),
                   [st EXCEPT !.registry = IF done THEN WithoutPath(@, wt.path) ELSE @,
                              !.dirs = IF done THEN @ \ { wt.path } ELSE @,
                              !.ops = Append(@, Op("worktree-remove", wt.path, done, wt.path \notin rmFail))],
                   rmFail)
        ELSE RemoveLoop(Tail(wts), st, rmFail)

\* the loop over the listed branches: delete each, going on after a failure
RECURSIVE DeleteLoop(_, _, _)
DeleteLoop(names, st, delFail) ==
    IF names = << >> THEN st
    ELSE LET b == Head(names) IN
        IF b # EMPTY THEN
            LET done == DeleteSucceeds(b, st.branches, st.registry, head, b \notin delFail)
            IN DeleteLoop(Tail(names),
                   [st EXCEPT !.branches = IF done THEN @ \ { b } ELSE @,
                              !.ops = Append(@, Op("delete-branch", b, done, b \notin delFail))],
                   delFail)
        ELSE DeleteLoop(Tail(names), st, delFail)

\* clean --all
CleanAll(wts, wtListOk, rmFail, brListOk, delFail) ==
    LET st0 == [exit |-> 0, ops |-> << Op("worktree-list", EMPTY, wtListOk, wtListOk) >>,
                branches |-> branches, registry |-> registry, dirs |-> dirs]
        st1 == IF wtListOk THEN RemoveLoop(wts, st0, rmFail) ELSE st0
        st2 == [st1 EXCEPT !.ops = Append(@, Op("branch-list", EMPTY, brListOk, brListOk))]
    IN IF brListOk
       THEN DeleteLoop(ParseBranchList(BranchListText(st2.branches, st2.registry, head)),
                       st2, delFail)
       ELSE st2

\* the paths clean --all tries to remove
ClaudeWtPaths(wts) == { wts[i].path : i \in { j \in 1..Len(wts) : IsClaudeWt(wts[j]) } }
SessionBranches == { BranchName(id) : id \in AllIds }

\* which operations of clean --all fail for outside reasons
CleanFaults(paths, names) ==
    { f \in [wtListOk : BOOLEAN, brListOk : BOOLEAN,
             rmFail : SUBSET paths, delFail : SUBSET names] :
        Bit(f.wtListOk) + Bit(f.brListOk) + Cardinality(f.rmFail) + Cardinality(f.delFail)
            <= MaxFaults }

CleanOneFaults ==
    { f \in [rmOk : BOOLEAN, delOk : BOOLEAN] : Bit(f.rmOk) + Bit(f.delOk) <= MaxFaults }

\* a variant that lets a branch name pass together with --all
UsageErrorNeitherOnly(id, all) == id = EMPTY /\ ~all

\* not branch_name and not all, or branch_name and all
UsageError(id, all) == (id = EMPTY /\ ~all) \/ (id # EMPTY /\ all)

Clean(id, all) ==
    IF UsageError(id, all) THEN
        /\ last' = [Result("clean-usage", id) EXCEPT !.exit = 1, !.all = all]
        /\ UNCHANGED << branches, head, registry, dirs, gitignore, created, tampered >>
    ELSE IF id # EMPTY THEN
        \E r \in { CleanOne(id, f.rmOk, f.delOk) : f \in CleanOneFaults } :
               /\ last' = [Result("clean", id) EXCEPT !.exit = r.exit, !.ops = r.ops,
                                                       !.all = all]
               /\ branches' = r.branches
               /\ registry' = r.registry
               /\ dirs' = r.dirs
               /\ created' = created \ { id }
               /\ tampered' = tampered \ { id }
               /\ UNCHANGED << head, gitignore >>
    ELSE
        \E wts \in { ParseWorktrees(WorktreeListText(registry, head, dirs)) } :
        \E r \in { CleanAll(wts, f.wtListOk, f.rmFail, f.brListOk, f.delFail) :
                       f \in CleanFaults(ClaudeWtPaths(wts), SessionBranches \cap branches) } :
               /\ last' = [Result("clean-all", EMPTY) EXCEPT !.exit = r.exit, !.ops = r.ops,
                                                           !.all = all]
               /\ branches' = r.branches
               /\ registry' = r.registry
               /\ dirs' = r.dirs
               /\ created' = { }
               /\ tampered' = { }
               /\ UNCHANGED << head, gitignore >>

(* -------------------------------- init --------------------------------- *)
\* str.endswith("\n")
EndsWithNewline(s) == s # EMPTY /\ s[Len(s)] = NL

\* a variant that appends the entry right after the last character
InitContentGlued(gi) == gi.content \o IGNORE_ENTRY \o << NL >>

\* the content init writes when the entry is missing
InitContent(gi) ==
    LET existing == IF gi.exists
                    THEN (IF gi.content # EMPTY /\ ~EndsWithNewline(gi.content)
                          THEN gi.content \o << NL >> ELSE gi.content)
                    ELSE EMPTY
    IN existing \o << NL >> \o INIT_COMMENT \o << NL >> \o IGNORE_ENTRY \o << NL >>

InitCmd ==
    /\ gitignore' = IF CheckGitignore(gitignore) THEN gitignore
                    ELSE [exists |-> TRUE, content |-> InitContent(gitignore)]
    /\ last' = Result("init", EMPTY)
    /\ UNCHANGED << branches, head, registry, dirs, created, tampered >>

(* --------------------------- the environment --------------------------- *)
\* a command starts when no other is running
AtPrompt == last.cmd = "none"

\* the user deletes the directory of a session's worktree behind git's back
EnvDeleteDir(id) ==
    /\ AtPrompt
    /\ WtPath(BranchName(id)) \in dirs
    /\ dirs' = dirs \ { WtPath(BranchName(id)) }
    /\ tampered' = tampered \cup { id }
    /\ prev' = NoCreate
    /\ UNCHANGED << branches, head, registry, gitignore, last, created, pvars >>

\* the user runs git worktree remove on a session's worktree: the branch
\* stays without a worktree
EnvWorktreeRemove(id) ==
    /\ AtPrompt
    /\ WtPath(BranchName(id)) \in RegPaths(registry)
    /\ registry' = WithoutPath(registry, WtPath(BranchName(id)))
    /\ dirs' = dirs \ { WtPath(BranchName(id)) }
    /\ created' = created \ { id }
    /\ tampered' = tampered \ { id }
    /\ prev' = NoCreate
    /\ UNCHANGED << branches, head, gitignore, last, pvars >>

\* the user adds a worktree of their own, on dev or detached
EnvForeignAdd(branch) ==
    /\ AtPrompt
    /\ ForeignPath \notin RegPaths(registry)
    /\ branch \notin CheckedOut(registry, head)
    /\ registry' = registry \cup { [path |-> ForeignPath, branch |-> branch] }
    /\ dirs' = dirs \cup { ForeignPath }
    /\ prev' = NoCreate
    /\ UNCHANGED << branches, head, gitignore, last, created, tampered, pvars >>

\* the user removes that worktree
EnvForeignRemove ==
    /\ AtPrompt
    /\ ForeignPath \in RegPaths(registry)
    /\ registry' = WithoutPath(registry, ForeignPath)
    /\ dirs' = dirs \ { ForeignPath }
    /\ prev' = NoCreate
    /\ UNCHANGED << branches, head, gitignore, last, created, tampered, pvars >>

(* --------------------------- specification ----------------------------- *)
NoInput == [lines |-> << >>, newline |-> FALSE]

NoGitignore == [exists |-> FALSE, content |-> EMPTY]

NoShown == [stripped |-> EMPTY, rows |-> << >>]

NoRace == [id |-> EMPTY, procs |-> << >>]

Init ==
    /\ branches = { MAIN, DEV }
    /\ head = MAIN
    /\ registry = { }
    /\ dirs = { RepoRoot }
    /\ gitignore = NoGitignore
    /\ last = NoResult
    /\ prev = NoCreate
    /\ created = { }
    /\ tampered = { }
    /\ input = NoInput
    /\ pstate = "idle"
    /\ parsed = << >>
    /\ lookup = NotFoundWt
    /\ ident = EMPTY
    /\ shown = NoShown
    /\ race = NoRace

\* the next command is run right after this one: it is told which session
\* this one created, if it created one, and which session it cleaned with
\* every removal done
Remember ==
    prev' = IF last'.cmd = "new" /\ last'.exit = 0
            THEN [NoCreate EXCEPT !.id = last'.arg, !.path = last'.path]
            ELSE IF last'.cmd = "clean" /\ last'.exit = 0
                    /\ \A i \in 1..Len(last'.ops) : last'.ops[i].ok
            THEN [NoCreate EXCEPT !.cleaned = last'.arg]
            ELSE NoCreate

\* an override naming the current branch resolves to the same source
\* branch as no override, so only the other branches are tried as overrides
NewStep ==
    /\ AtPrompt
    /\ \E branch \in { EMPTY } \cup (SourceBranches \ { head }),
          name \in { EMPTY } \cup Idents, ts \in Timestamps : New(branch, name, ts)
    /\ Remember
    /\ UNCHANGED pvars

ResumeStep ==
    /\ AtPrompt
    /\ \E id \in AllIds : Resume(id)
    /\ Remember
    /\ UNCHANGED pvars

CleanStep ==
    /\ AtPrompt
    /\ \E id \in { EMPTY } \cup AllIds, all \in BOOLEAN : Clean(id, all)
    /\ Remember
    /\ UNCHANGED pvars

ListStep ==
    /\ AtPrompt
    /\ List
    /\ Remember
    /\ UNCHANGED pvars

InitStep ==
    /\ AtPrompt
    /\ InitCmd
    /\ Remember
    /\ UNCHANGED pvars

\* app() returns: the process of the command ends, and what it printed is
\* no longer at hand
Return ==
    /\ ~AtPrompt
    /\ last' = NoResult
    /\ UNCHANGED << branches, head, registry, dirs, gitignore, prev, created, tampered,
                    pvars >>

Next ==
    \/ NewStep
    \/ ResumeStep
    \/ CleanStep
    \/ ListStep
    \/ InitStep
    \/ \E id \in AllIds : EnvDeleteDir(id)
    \/ \E id \in AllIds : EnvWorktreeRemove(id)
    \/ \E branch \in { DEV, EMPTY } : EnvForeignAdd(branch)
    \/ EnvForeignRemove
    \/ Return

Spec == Init /\ [][Next]_vars

(* ------------------- the parsers on registry texts --------------------- *)
\* the lines a registry text is made of
PathLines == { [kind |-> "path", val |-> RepoRoot], [kind |-> "path", val |-> ForeignPath] }
BranchLines == { [kind |-> "branch", val |-> BranchName(IdentPool[1])],
                [kind |-> "branch", val |-> MAIN] }
OtherLines == { [kind |-> "head", val |-> EMPTY], [kind |-> "blank", val |-> EMPTY] }
LinePool == PathLines \cup BranchLines \cup OtherLines

\* the text of one line, as git worktree list --porcelain prints it
LineText(l) ==
    IF l.kind = "path" THEN WORKTREE_KW \o l.val
    ELSE IF l.kind = "branch" THEN BRANCH_KW \o REFS_HEADS \o l.val
    ELSE IF l.kind = "head" THEN HEAD_LINE
    ELSE EMPTY

\* every attribute line belongs to a record: a path line comes before it
WellFormed(ls) ==
    \A i \in 1..Len(ls) :
        ls[i].kind \in { "branch", "head" } => \E j \in 1..(i - 1) : ls[j].kind = "path"

LineSeqs == UNION { [1..n -> LinePool] : n \in 0..MaxLines }

Inputs == { in \in [lines : LineSeqs, newline : BOOLEAN] : WellFormed(in.lines) }

\* the text of an input: its lines joined by newlines, with or without a
\* newline at the end
InputText(in) ==
    LET joined == JoinLines([i \in 1..Len(in.lines) |-> LineText(in.lines[i])])
    IN IF in.newline \/ joined = EMPTY THEN joined
       ELSE SubSeq(joined, 1, Len(joined) - 1)

InitParse ==
    /\ branches = { MAIN, DEV }
    /\ head = MAIN
    /\ registry = { }
    /\ dirs = { }
    /\ gitignore = NoGitignore
    /\ last = NoResult
    /\ prev = NoCreate
    /\ created = { }
    /\ tampered = { }
    /\ input \in Inputs
    /\ pstate = "input"
    /\ parsed = << >>
    /\ lookup = NotFoundWt
    /\ ident = EMPTY
    /\ shown = NoShown
    /\ race = NoRace

ParseStep ==
    /\ pstate = "input"
    /\ parsed' = ParseWorktrees(InputText(input))
    /\ pstate' = "parsed"
    /\ UNCHANGED << branches, head, registry, dirs, gitignore, last, prev, created,
                    tampered, input, lookup, ident, shown, race >>

LookupStep ==
    /\ pstate = "input"
    /\ lookup' = FindWorktree(InputText(input), BranchName(IdentPool[1]))
    /\ pstate' = "looked"
    /\ UNCHANGED << branches, head, registry, dirs, gitignore, last, prev, created,
                    tampered, input, parsed, ident, shown, race >>

NextParse == ParseStep \/ LookupStep

ParseSpec == InitParse /\ [][NextParse]_vars

(* ------------------- the naming functions on identifiers --------------- *)
\* the pieces an identifier is made of: letters, a dash, and the prefix
\* itself
Tokens == { <<"a">>, <<"b">>, <<"-">>, PREFIX }

RECURSIVE Concat(_)
Concat(pieces) ==
    IF pieces = << >> THEN EMPTY ELSE Head(pieces) \o Concat(Tail(pieces))

\* the identifiers of at most MaxTokens pieces
Identifiers == { Concat(ps) : ps \in UNION { [1..n -> Tokens] : n \in 1..MaxTokens } }

\* the repository in which the session of an identifier is the one linked
\* worktree
OneSession(id) == { [path |-> WtPath(BranchName(id)), branch |-> BranchName(id)] }

InitName ==
    /\ branches = { MAIN, DEV }
    /\ head = MAIN
    /\ registry = { }
    /\ dirs = { }
    /\ gitignore = NoGitignore
    /\ last = NoResult
    /\ prev = NoCreate
    /\ created = { }
    /\ tampered = { }
    /\ input = NoInput
    /\ pstate = "ident"
    /\ parsed = << >>
    /\ lookup = NotFoundWt
    /\ ident \in Identifiers
    /\ shown = NoShown
    /\ race = NoRace

\* the branch of ident is named as new names it, and list computes the
\* session name of that branch and the rows of a repository holding it
NameStep ==
    /\ pstate = "ident"
    /\ shown' = [stripped |-> SessionName(BranchName(ident)),
                 rows |-> ListRows(WorktreeListText(OneSession(ident), MAIN,
                                                    { WtPath(BranchName(ident)) }),
                                   { WtPath(BranchName(ident)) })]
    /\ pstate' = "named"
    /\ UNCHANGED << branches, head, registry, dirs, gitignore, last, prev, created,
                    tampered, input, parsed, lookup, ident, race >>

NextName == NameStep

NameSpec == InitName /\ [][NextName]_vars

(* ------------------------ init on ignore files ------------------------- *)
\* the lines an ignore file is made of: a pattern of the user's, the entry,
\* an accepted pattern between blanks, the entry commented out, an empty
\* line
IgnoreLines ==
    { <<"x">>, IGNORE_ENTRY, <<" ">> \o <<".","c","l","a","u","d","e","-","w","t","/","*">> \o <<" ">>,
      <<"#">> \o IGNORE_ENTRY, EMPTY }

\* the ignore files of at most MaxIgnoreLines lines, with and without a
\* newline at the end, and the absent file
IgnoreFiles ==
    { NoGitignore }
    \cup { [exists |-> TRUE, content |-> JoinLines(ls)] :
              ls \in UNION { [1..n -> IgnoreLines] : n \in 0..MaxIgnoreLines } }
    \cup { [exists |-> TRUE, content |-> SubSeq(JoinLines(ls), 1, Len(JoinLines(ls)) - 1)] :
              ls \in UNION { [1..n -> IgnoreLines] : n \in 1..MaxIgnoreLines } }

InitIgnore ==
    /\ branches = { MAIN, DEV }
    /\ head = MAIN
    /\ registry = { }
    /\ dirs = { RepoRoot }
    /\ gitignore \in IgnoreFiles
    /\ last = NoResult
    /\ prev = NoCreate
    /\ created = { }
    /\ tampered = { }
    /\ input = NoInput
    /\ pstate = "idle"
    /\ parsed = << >>
    /\ lookup = NotFoundWt
    /\ ident = EMPTY
    /\ shown = NoShown
    /\ race = NoRace

NextIgnore == InitStep \/ Return

IgnoreSpec == InitIgnore /\ [][NextIgnore]_vars

(* ------------------- new processes at the same time -------------------- *)
\* Several new processes of one identifier run at the same time.  Nothing
\* locks: the steps of the processes interleave, each git command being
\* atomic.  A process is [pc, override, source, ops, exit].
Procs == 1..NumProcs

\* a variant in which a failed git branch is ignored
BranchFailureIgnored == FALSE

\* whether a failed git branch ends new by an exception: it runs with
\* check=True and nothing catches it
BranchFailureRaises == TRUE

StartProc(override) ==
    [pc |-> "start", override |-> override, source |-> EMPTY, ops |-> << >>, exit |-> 0]

\* the ignore file as init leaves it
InitializedGitignore == [exists |-> TRUE, content |-> InitContent(NoGitignore)]

InitRace ==
    /\ head = MAIN
    /\ registry = { }
    /\ dirs = { RepoRoot }
    /\ gitignore = InitializedGitignore
    /\ last = NoResult
    /\ prev = NoCreate
    /\ created = { }
    /\ tampered = { }
    /\ input = NoInput
    /\ pstate = "race"
    /\ parsed = << >>
    /\ lookup = NotFoundWt
    /\ ident = EMPTY
    /\ shown = NoShown
    /\ \E id \in AllIds, overrides \in [Procs -> { EMPTY, DEV }], leftover \in BOOLEAN :
          /\ race = [id |-> id, procs |-> [p \in Procs |-> StartProc(overrides[p])]]
          /\ branches = { MAIN, DEV } \cup (IF leftover THEN { BranchName(id) } ELSE { })

RaceFrame == UNCHANGED << gitignore, last, prev, created, tampered,
                          input, pstate, parsed, lookup, ident, shown >>

\* the process p goes to pc, with an operation added to its log
Advance(p, pc, op) ==
    race' = [race EXCEPT !.procs[p].pc = pc, !.procs[p].ops = Append(@, op),
                         !.procs[p].exit = IF pc = "failed" THEN 1 ELSE @]

\* the guard, the source branch and the switch of sync_with_remote
RaceSwitch(p) ==
    LET me == race.procs[p]
        src == SourceBranch(me.override)
        ok == src \in branches /\ src \notin LinkedCheckedOut(registry)
    IN /\ me.pc = "start"
       /\ CheckGitignore(gitignore)
       /\ head' = IF ok THEN src ELSE head
       /\ race' = [race EXCEPT !.procs[p].pc = IF ok THEN "show-ref" ELSE "failed",
                               !.procs[p].source = src,
                               !.procs[p].ops = Append(@, Op("switch", src, ok, TRUE)),
                               !.procs[p].exit = IF ok THEN @ ELSE 1]
       /\ UNCHANGED << branches, registry, dirs >>
       /\ RaceFrame

\* git show-ref: the process learns whether the branch exists
RaceShowRef(p) ==
    LET me == race.procs[p]
        name == BranchName(race.id)
    IN /\ me.pc = "show-ref"
       /\ Advance(p, IF BranchNeeded(name) THEN "create-branch" ELSE "exists",
                  Op("show-ref", name, ShowRef(name), TRUE))
       /\ UNCHANGED << branches, head, registry, dirs >>
       /\ RaceFrame

\* git branch <name> <source>: git refuses a name that exists by now
RaceCreateBranch(p) ==
    LET me == race.procs[p]
        name == BranchName(race.id)
        ok == name \notin branches
    IN /\ me.pc = "create-branch"
       /\ branches' = IF ok THEN branches \cup { name } ELSE branches
       /\ Advance(p, IF ~ok /\ BranchFailureRaises THEN "failed" ELSE "exists",
                  Op("create-branch", name, ok, TRUE))
       /\ UNCHANGED << head, registry, dirs >>
       /\ RaceFrame

\* wt_path.parent.mkdir and the test of wt_path.exists()
RaceExists(p) ==
    LET me == race.procs[p]
        path == WtPath(BranchName(race.id))
    IN /\ me.pc = "exists"
       /\ dirs' = dirs \cup { WtRoot }
       /\ race' = [race EXCEPT !.procs[p].pc =
                       IF WorktreeNeeded(path, dirs') THEN "worktree-add" ELSE "launch"]
       /\ UNCHANGED << branches, head, registry >>
       /\ RaceFrame

\* git worktree add: git refuses a path or a branch registered by now
RaceWorktreeAdd(p) ==
    LET me == race.procs[p]
        name == BranchName(race.id)
        path == WtPath(name)
        ok == WorktreeAddSucceeds(path, name, registry, head, branches, TRUE)
    IN /\ me.pc = "worktree-add"
       /\ registry' = IF ok THEN registry \cup { [path |-> path, branch |-> name] }
                      ELSE registry
       /\ dirs' = IF ok THEN dirs \cup { path } ELSE dirs
       /\ Advance(p, IF ok THEN "launch" ELSE "failed", Op("worktree-add", name, ok, TRUE))
       /\ UNCHANGED << branches, head >>
       /\ RaceFrame

\* the agent is launched in the worktree and new returns
RaceLaunch(p) ==
    /\ race.procs[p].pc = "launch"
    /\ race' = [race EXCEPT !.procs[p].pc = "done"]
    /\ UNCHANGED << branches, head, registry, dirs >>
    /\ RaceFrame

NextRace ==
    \/ \E p \in Procs : RaceSwitch(p)
    \/ \E p \in Procs : RaceShowRef(p)
    \/ \E p \in Procs : RaceCreateBranch(p)
    \/ \E p \in Procs : RaceExists(p)
    \/ \E p \in Procs : RaceWorktreeAdd(p)
    \/ \E p \in Procs : RaceLaunch(p)

RaceSpec == InitRace /\ [][NextRace]_vars

(* --------------------- the typer draft of new -------------------------- *)
\* the draft keeps its worktrees under /tmp/claude/worktrees/<repo name>
DRAFT_WT_ROOT ==
    <<"/","t","m","p","/","c","l","a","u","d","e","/","w","o","r","k","t","r","e","e","s","/","r">>

DraftWtPath(branchName) == DRAFT_WT_ROOT \o <<"/">> \o branchName

\* what may go wrong outside the draft: no remote named origin, and each of
\* the git commands failing for a reason of its own
DraftEnvs ==
    { env \in [hasOrigin : BOOLEAN, fetchOk : BOOLEAN, switchOk : BOOLEAN,
               pullOk : BOOLEAN, branchOk : BOOLEAN, addOk : BOOLEAN] :
        Bit(env.fetchOk) + Bit(env.switchOk) + Bit(env.pullOk)
            + Bit(env.branchOk) + Bit(env.addOk) <= MaxFaults }

\* git fetch origin; git switch --quiet main; git pull --ff-only --quiet, each
\* run with check=True inside one try block: the first that fails ends the
\* command with exit status 1
DraftSync(env) ==
    LET fetched == env.hasOrigin /\ env.fetchOk
        fetchOp == << Op("fetch", ORIGIN, fetched, env.fetchOk) >>
        switched == MAIN \in branches /\ MAIN \notin LinkedCheckedOut(registry)
                    /\ env.switchOk
        switchOp == << Op("switch", MAIN, switched, env.switchOk) >>
        pulled == env.hasOrigin /\ env.pullOk
        pullOp == << Op("pull", MAIN, pulled, env.pullOk) >>
    IN IF ~fetched THEN
           [raised |-> TRUE, ops |-> fetchOp, head |-> head]
       ELSE IF ~switched THEN
           [raised |-> TRUE, ops |-> fetchOp \o switchOp, head |-> head]
       ELSE IF ~pulled THEN
           [raised |-> TRUE, ops |-> fetchOp \o switchOp \o pullOp, head |-> MAIN]
       ELSE
           [raised |-> FALSE, ops |-> fetchOp \o switchOp \o pullOp, head |-> MAIN]

\* the draft from the branch creation on: branch from main unless show-ref
\* finds it, mkdir -p of the parent, worktree add unless the path exists
DraftFrom(suffix, sr, env) ==
    LET name == BranchName(suffix)
        path == DraftWtPath(name)
        exists == ShowRef(name)
        branched == env.branchOk /\ MAIN \in branches
        ops1 == sr.ops \o << Op("show-ref", name, exists, TRUE) >>
                \o (IF ~exists THEN << Op("create-branch", name, branched, env.branchOk) >>
                    ELSE << >>)
        brs1 == IF ~exists /\ branched THEN branches \cup { name } ELSE branches
        ds1 == dirs \cup { DRAFT_WT_ROOT }
        mkWt == path \notin ds1
        added == WorktreeAddSucceeds(path, name, registry, sr.head, brs1, env.addOk)
        ops2 == ops1 \o (IF mkWt THEN << Op("worktree-add", name, added, env.addOk) >>
                         ELSE << >>)
    IN IF ~exists /\ ~branched THEN
           [exit |-> 1, ops |-> ops1, branches |-> branches, registry |-> registry,
            dirs |-> dirs, path |-> EMPTY, launched |-> FALSE]
       ELSE IF mkWt /\ ~added THEN
           [exit |-> 1, ops |-> ops2, branches |-> brs1, registry |-> registry,
            dirs |-> ds1, path |-> EMPTY, launched |-> FALSE]
       ELSE
           [exit |-> 0, ops |-> ops2, branches |-> brs1,
            registry |-> IF mkWt THEN registry \cup { [path |-> path, branch |-> name] }
                         ELSE registry,
            dirs |-> ds1 \cup { path }, path |-> path, launched |-> TRUE]

\* new of src/main.py: --branch is the suffix, the timestamp stands in for it
DraftNew(branch, ts) ==
    \E env \in DraftEnvs :
        LET suffix == Suffix(branch, ts)
            sr == DraftSync(env)
        IN IF sr.raised THEN
               /\ last' = [Result("draft-new", suffix) EXCEPT !.exit = 1, !.ops = sr.ops]
               /\ head' = sr.head
               /\ UNCHANGED << branches, registry, dirs, gitignore, created, tampered >>
           ELSE LET r == DraftFrom(suffix, sr, env)
                IN /\ last' = [Result("draft-new", suffix) EXCEPT
                                   !.exit = r.exit, !.ops = r.ops, !.path = r.path,
                                   !.launched = r.launched]
                   /\ head' = sr.head
                   /\ branches' = r.branches
                   /\ registry' = r.registry
                   /\ dirs' = r.dirs
                   /\ UNCHANGED << gitignore, created, tampered >>

DraftNewStep ==
    /\ AtPrompt
    /\ \E branch \in { EMPTY } \cup Idents, ts \in Timestamps : DraftNew(branch, ts)
    /\ Remember
    /\ UNCHANGED pvars

\* the user deletes the directory of a draft worktree behind git's back
DraftDeleteDir(id) ==
    /\ AtPrompt
    /\ DraftWtPath(BranchName(id)) \in dirs
    /\ dirs' = dirs \ { DraftWtPath(BranchName(id)) }
    /\ prev' = NoCreate
    /\ UNCHANGED << branches, head, registry, gitignore, last, created, tampered, pvars >>

\* the user switches the main checkout to another branch
DraftSwitch(branch) ==
    /\ AtPrompt
    /\ branch \in branches
    /\ branch # head
    /\ branch \notin LinkedCheckedOut(registry)
    /\ head' = branch
    /\ prev' = NoCreate
    /\ UNCHANGED << branches, registry, dirs, gitignore, last, created, tampered, pvars >>

NextDraft ==
    \/ DraftNewStep
    \/ \E id \in AllIds : DraftDeleteDir(id)
    \/ \E branch \in SourceBranches : DraftSwitch(branch)
    \/ Return

DraftSpec == Init /\ [][NextDraft]_vars

(* ------------------------------ properties ----------------------------- *)
\* the registry records bound to a branch
RecordsOn(reg, name) == { wt \in reg : wt.branch = name }

\* the repository holds the session of an identifier: its branch, and one
\* worktree bound to it at the session's path
HasSession(brs, reg, id) ==
    /\ BranchName(id) \in brs
    /\ RecordsOn(reg, BranchName(id)) =
           { [path |-> WtPath(BranchName(id)), branch |-> BranchName(id)] }

\* no operation of the log failed for an outside reason
NoFault(ops) == \A i \in 1..Len(ops) : ~ops[i].fault

\* the operations of sync in a log all succeeded
SyncOps == { "switch", "remote", "fetch", "pull" }
SyncSucceeded(ops) == FailedOps(ops) \cap SyncOps = { }

\* C1: a new of the identifier whose new has just succeeded, run while git
\* works and the sync succeeds, exits with 0, issues neither create-branch
\* nor worktree-add, reports the same path, and leaves the branches and
\* the registry as the first new left them: one branch, one worktree of it
C1_CreateTwice ==
    [][ (last'.cmd = "new" /\ last'.afterCreate /\ NoFault(last'.ops)
            /\ SyncSucceeded(last'.ops))
        => /\ last'.exit = 0
           /\ OpNames(last'.ops) \cap { "create-branch", "worktree-add" } = { }
           /\ last'.path = prev.path
           /\ last'.path = WtPath(BranchName(last'.arg))
           /\ branches' = branches
           /\ registry' = registry
           /\ HasSession(branches', registry', last'.arg) ]_vars

C1_Witness ==
    /\ last.cmd = "new" /\ last.afterCreate /\ last.exit = 0
    /\ NoFault(last.ops) /\ SyncSucceeded(last.ops)
    /\ OpNames(last.ops) \cap { "create-branch", "worktree-add" } = { }
    /\ HasSession(branches, registry, last.arg)

\* C2: resume of an identifier that was created, not cleaned since and
\* whose directory nobody deleted succeeds with the session's worktree path
C2_ResumeAfterCreate ==
    (last.cmd = "resume" /\ last.arg \in created \ tampered)
    => /\ last.exit = 0
       /\ last.path = WtPath(BranchName(last.arg))

\* C3: resume fails with exit 1 and launches nothing when no registry
\* record is on the identifier's branch, and when the record's directory
\* is gone from the disk
C3_ResumeNotFound ==
    (last.cmd = "resume"
        /\ \A wt \in RecordsOn(registry, BranchName(last.arg)) : wt.path \notin dirs)
    => last.exit = 1 /\ ~last.launched

C3_Witness ==
    /\ last.cmd = "resume"
    /\ BranchName(last.arg) \in branches
    /\ RecordsOn(registry, BranchName(last.arg)) # { }
    /\ \A wt \in RecordsOn(registry, BranchName(last.arg)) : wt.path \notin dirs
    /\ last.exit = 1 /\ ~last.launched

\* the rows are in the order of their branch names
RowsSorted(rows) ==
    \A i \in 1..Len(rows), j \in 1..Len(rows) :
        i < j => StrLess(rows[i].branch, rows[j].branch)

\* C4: list prints one row for each identifier created and not cleaned
\* and no other row, in the order of the branch names, every row on a
\* claude-wt- branch
C4_ListCreated ==
    last.cmd = "list"
    => /\ { last.rows[i].session : i \in 1..Len(last.rows) } = created
       /\ Len(last.rows) = Cardinality(created)
       /\ RowsSorted(last.rows)
       /\ \A i \in 1..Len(last.rows) : StartsWith(last.rows[i].branch, PREFIX)

\* C5: a clean of the identifier whose new has just succeeded, run while
\* git works, removes the branch, the registry record and the directory,
\* leaves no row of it in what list prints, and leaves every other branch,
\* record and directory alone
C5_CleanAfterCreate ==
    [][ (last'.cmd = "clean" /\ last'.afterCreate /\ NoFault(last'.ops))
        => LET name == BranchName(last'.arg)
               path == WtPath(name)
           IN /\ last'.exit = 0
              /\ name \notin branches'
              /\ path \notin RegPaths(registry') /\ RecordsOn(registry', name) = { }
              /\ path \notin dirs'
              /\ \A i \in 1..Len(ListRows(WorktreeListText(registry', head', dirs'), dirs')) :
                     ListRows(WorktreeListText(registry', head', dirs'), dirs')[i].session
                         # last'.arg
              /\ branches' = branches \ { name }
              /\ registry' = { wt \in registry : wt.path # path }
              /\ dirs' = dirs \ { path }
              /\ head' = head ]_vars

C5_Witness ==
    /\ last.cmd = "clean" /\ last.afterCreate /\ last.exit = 0 /\ NoFault(last.ops)
    /\ OpNames(last.ops) = { "worktree-remove", "delete-branch" }
    /\ BranchName(last.arg) \notin branches
    /\ \E id \in AllIds \ { last.arg } : HasSession(branches, registry, id)

\* C6: after clean --all run while git works, no claude-wt- branch is left
\* and no registry record is bound to one
C6_CleanAllRemovesAll ==
    (last.cmd = "clean-all" /\ NoFault(last.ops))
    => /\ \A b \in branches : ~StartsWith(b, PREFIX)
       /\ \A wt \in registry : ~StartsWith(wt.branch, PREFIX)

\* the path lines of an input, in order
IsPathLine(l) == l.kind = "path"

\* C7: the parser returns one record for each path line of the text, in
\* the order of the lines, the last one included once
C7_OneRecordPerPathLine ==
    pstate = "parsed"
    => LET paths == SelectSeq(input.lines, IsPathLine)
       IN /\ Len(parsed) = Len(paths)
          /\ \A k \in 1..Len(paths) : parsed[k].hasPath /\ parsed[k].path = paths[k].val

C7_Witness ==
    /\ pstate = "parsed"
    /\ ~input.newline
    /\ Len(input.lines) >= 3
    /\ input.lines[1].kind = "path"
    /\ input.lines[Len(input.lines)].kind \in { "path", "branch" }
    /\ Len(parsed) = 2

\* the branch line that closes the record of the k-th path line, if any
BranchLinesAfter(ls, k) ==
    LET pos == { i \in 1..Len(ls) : ls[i].kind = "path" }
        start == CHOOSE i \in pos : Cardinality({ j \in pos : j <= i }) = k
    IN { i \in (start + 1)..Len(ls) :
            /\ ls[i].kind = "branch"
            /\ \A j \in (start + 1)..i : ls[j].kind # "path" }

\* C8: the branch field of a parsed record whose branch line names
\* refs/heads/X is X, so that the record of a session passes the prefix
\* filter
C8_BranchFieldBare ==
    pstate = "parsed"
    => \A k \in 1..Len(parsed) :
          LET bl == BranchLinesAfter(input.lines, k)
          IN bl # { }
             => LET name == input.lines[CHOOSE i \in bl : \A j \in bl : j <= i].val
                IN /\ GetBranch(parsed[k]) = name
                   /\ IsClaudeWt(parsed[k]) = StartsWith(name, PREFIX)

\* the sync of the last new returned to new instead of raising
SyncReturned(r) == "show-ref" \in OpNames(r.ops)

\* C9: in a new that got past the guard, sync raises exactly when the
\* switch to the source branch failed; without a remote, after a failed
\* fetch, without an upstream and after a rejected pull it returns
C9_SyncFatalOnlyOnSwitch ==
    (last.cmd = "new" /\ last.sync # "none")
    => /\ SyncReturned(last) <=> "switch" \notin FailedOps(last.ops)
       /\ last.sync \in { "no-remote", "fetch-failed", "no-upstream", "pull-rejected" }
              => SyncReturned(last)
       /\ last.sync = "switch-failed" <=> "switch" \in FailedOps(last.ops)

C9_Witness ==
    /\ last.cmd = "new" /\ last.sync = "fetch-failed"
    /\ "fetch" \in FailedOps(last.ops)
    /\ SyncReturned(last)

Degraded == { "no-remote", "fetch-failed", "no-upstream", "pull-rejected" }

\* C10: a new whose sync was degraded, and whose branch creation and
\* worktree addition did not fail, exits with 0 with the session in place
\* and the agent launched; a new whose switch failed exits with 1, launches
\* nothing and leaves branches, registry and directories as they were
C10_CreateAfterSync ==
    [][ last'.cmd = "new"
        => /\ (last'.sync \in Degraded
                 /\ FailedOps(last'.ops) \cap { "create-branch", "worktree-add" } = { })
              => /\ last'.exit = 0 /\ last'.launched
                 /\ HasSession(branches', registry', last'.arg)
                 /\ WtPath(BranchName(last'.arg)) \in dirs'
           /\ "switch" \in FailedOps(last'.ops)
              => /\ last'.exit = 1 /\ ~last'.launched
                 /\ OpNames(last'.ops) = { "switch" }
                 /\ branches' = branches /\ registry' = registry /\ dirs' = dirs ]_vars

C10_Witness ==
    /\ last.cmd = "new" /\ last.sync = "pull-rejected" /\ last.exit = 0
    /\ { "create-branch", "worktree-add" } \subseteq OpNames(last.ops)
    /\ FailedOps(last.ops) = { "pull", "show-ref" }
    /\ HasSession(branches, registry, last.arg)

\* the commands that are clean
CleanCmds == { "clean", "clean-all", "clean-usage" }

\* C11: a clean given both an identifier and --all, or neither, exits
\* with a non-zero status without issuing any git operation, and leaves
\* branches, registry, directories, checkout and ignore file as they were
C11_CleanUsageError ==
    [][ (last'.cmd \in CleanCmds /\ ((last'.arg # EMPTY) <=> last'.all))
        => /\ last'.exit # 0
           /\ last'.ops = << >>
           /\ UNCHANGED << branches, head, registry, dirs, gitignore >> ]_vars

C11_Witness ==
    /\ last.cmd \in CleanCmds /\ last.arg # EMPTY /\ last.all
    /\ last.exit = 1 /\ last.ops = << >>
    /\ HasSession(branches, registry, last.arg)
    /\ WtPath(BranchName(last.arg)) \in dirs

\* C12: a clean of one identifier whose worktree path does not exist issues
\* no worktree removal and still attempts the deletion of the branch; a
\* clean of one identifier whose branch does not exist, and whose worktree
\* removal did not fail, has the failed deletion in its report, exits with
\* 0 and leaves the branches as they were
C12_CleanTolerant ==
    [][ (last'.cmd = "clean" /\ ~last'.all)
        => LET name == BranchName(last'.arg)
               path == WtPath(name)
           IN /\ path \notin dirs
                 => /\ "worktree-remove" \notin OpNames(last'.ops)
                    /\ "delete-branch" \in OpNames(last'.ops)
              /\ (name \notin branches /\ "worktree-remove" \notin FailedOps(last'.ops))
                 => /\ last'.exit = 0
                    /\ "delete-branch" \in FailedOps(last'.ops)
                    /\ branches' = branches ]_vars

C12_Witness ==
    /\ last.cmd = "clean" /\ ~last.all /\ NoFault(last.ops)
    /\ OpNames(last.ops) = { "delete-branch" }
    /\ FailedOps(last.ops) = { "delete-branch" }
    /\ BranchName(last.arg) \notin branches
    /\ WtPath(BranchName(last.arg)) \notin dirs
    /\ last.exit = 0

\* C13: in a clean of one identifier whose worktree path exists and whose
\* forced worktree removal fails, the deletion of the branch is attempted
\* all the same, and the report holds both outcomes
C13_CleanStepsIndependent ==
    [][ (last'.cmd = "clean" /\ ~last'.all
            /\ WtPath(BranchName(last'.arg)) \in dirs
            /\ "worktree-remove" \in FailedOps(last'.ops))
        => { "worktree-remove", "delete-branch" } \subseteq OpNames(last'.ops) ]_vars

\* the log holds an operation of a kind on a target
Attempted(ops, kind, tgt) == \E i \in 1..Len(ops) : ops[i].op = kind /\ ops[i].tgt = tgt

\* the log holds a failed operation of a kind on a target
FailedOn(ops, kind, tgt) ==
    \E i \in 1..Len(ops) : ops[i].op = kind /\ ops[i].tgt = tgt /\ ~ops[i].ok

\* the two listings of clean --all went through
ListingsWorked(ops) == FailedOps(ops) \cap { "worktree-list", "branch-list" } = { }

\* C14: in a clean --all whose listings work, whichever removals fail, the
\* removal of every worktree on a claude-wt- branch and the deletion of
\* every claude-wt- branch are attempted, and every session none of whose
\* removals failed is gone afterwards, branch and worktree
C14_SweepGoesOn ==
    [][ (last'.cmd = "clean-all" /\ ListingsWorked(last'.ops))
        => /\ \A wt \in registry :
                 StartsWith(wt.branch, PREFIX)
                     => Attempted(last'.ops, "worktree-remove", wt.path)
           /\ \A b \in branches :
                 StartsWith(b, PREFIX) => Attempted(last'.ops, "delete-branch", b)
           /\ \A b \in branches :
                 (/\ StartsWith(b, PREFIX)
                  /\ ~FailedOn(last'.ops, "delete-branch", b)
                  /\ \A wt \in RecordsOn(registry, b) :
                         ~FailedOn(last'.ops, "worktree-remove", wt.path))
                 => b \notin branches' /\ RecordsOn(registry', b) = { } ]_vars

\* the removals of clean --all
Removals == { "worktree-remove", "delete-branch" }

\* C15: a clean --all in which a worktree removal or a branch deletion
\* failed ends with an exit status other than 0, the status of a clean --all
\* in which every removal succeeded
C15_CleanAllExitStatus ==
    (last.cmd = "clean-all" /\ FailedOps(last.ops) \cap Removals # { })
    => last.exit # 0

\* the commands of the tool
ToolCmds == { "new", "resume", "list", "clean", "clean-all", "clean-usage", "init" }

\* C16: no command of the tool deletes a branch without the claude-wt-
\* prefix or removes a worktree whose branch lacks the prefix or that is
\* detached, and every row list prints is the row of a worktree on a
\* claude-wt- branch
C16_PrefixSafety ==
    [][ last'.cmd \in ToolCmds
        => /\ \A b \in branches \ branches' : StartsWith(b, PREFIX)
           /\ \A wt \in registry \ registry' : StartsWith(wt.branch, PREFIX)
           /\ \A p \in dirs \ dirs' :
                 \E wt \in registry : wt.path = p /\ StartsWith(wt.branch, PREFIX)
           /\ \A i \in 1..Len(last'.rows) :
                 \E wt \in registry :
                     wt.path = last'.rows[i].path /\ StartsWith(wt.branch, PREFIX) ]_vars

C16_Witness ==
    /\ last.cmd = "clean-all"
    /\ \E i \in 1..Len(last.ops) : last.ops[i].op = "delete-branch" /\ last.ops[i].ok
    /\ \E wt \in registry : wt.path = ForeignPath /\ wt.branch = EMPTY
    /\ ForeignPath \in dirs
    /\ { MAIN, DEV } \subseteq branches

\* C17: new issues no worktree-add for a branch that has a record in the
\* registry, whether or not the directory of that record is still on the
\* disk, and leaves no branch with two worktree paths
C17_NoSecondWorktreeAdd ==
    [][ last'.cmd = "new"
        => /\ RecordsOn(registry, BranchName(last'.arg)) # { }
                 => "worktree-add" \notin OpNames(last'.ops)
           /\ \A w1 \in registry', w2 \in registry' :
                 (w1.branch = w2.branch /\ w1.branch # EMPTY) => w1.path = w2.path ]_vars

\* the ignore file excludes the worktree directory from version control
IgnoresWorktrees(gi) ==
    /\ gi.exists
    /\ \E i \in 1..Len(SplitLines(gi.content)) :
           Strip(SplitLines(gi.content)[i]) \in IGNORE_PATTERNS

\* C18: a new run while the ignore file does not exclude the worktree
\* directory exits with a non-zero status, issues no git operation (no
\* switch, fetch, pull, branch creation, worktree addition), launches
\* nothing and leaves the repository as it was
C18_GuardRefuses ==
    [][ (last'.cmd = "new" /\ ~IgnoresWorktrees(gitignore))
        => /\ last'.exit # 0
           /\ last'.ops = << >>
           /\ ~last'.launched
           /\ UNCHANGED << branches, head, registry, dirs, gitignore >> ]_vars

C18_Witness ==
    /\ last.cmd = "new" /\ last.exit = 1 /\ last.ops = << >> /\ ~last.launched
    /\ ~IgnoresWorktrees(gitignore)
    /\ last.sync = "none"

\* C19: for every identifier, those holding the text claude-wt- included,
\* the session name list computes from the branch new names for it is the
\* identifier, in every row list prints for that branch
C19_PrefixRoundTrip ==
    pstate = "named"
    => /\ shown.stripped = ident
       /\ \A i \in 1..Len(shown.rows) : shown.rows[i].session = ident

\* list printed a row for a path, with a status
RowFor(rows, path, active) ==
    \E i \in 1..Len(rows) : rows[i].path = path /\ rows[i].active = active

\* C20: list prints a row for every worktree on a claude-wt- branch, with
\* the status active exactly when its directory exists, the worktrees
\* whose directory is gone included; and it prints a row for every
\* claude-wt- branch that has no worktree
C20_OrphansListed ==
    last.cmd = "list"
    => /\ \A wt \in registry :
             StartsWith(wt.branch, PREFIX)
                 => RowFor(last.rows, wt.path, wt.path \in dirs)
       /\ \A b \in branches :
             (StartsWith(b, PREFIX) /\ RecordsOn(registry, b) = { })
                 => \E i \in 1..Len(last.rows) :
                        last.rows[i].session = DropChars(b, Len(PREFIX))

\* C21: a clean --all run while the repository holds no claude-wt- branch
\* and no worktree of one, and a clean of the identifier that the command
\* before has just cleaned with every removal done, exit with 0 and leave
\* branches, registry and directories as they were
C21_CleanAgainNoOp ==
    [][ (\/ /\ last'.cmd = "clean-all"
            /\ \A b \in branches : ~StartsWith(b, PREFIX)
            /\ \A wt \in registry : ~StartsWith(wt.branch, PREFIX)
         \/ last'.cmd = "clean" /\ last'.afterClean)
        => /\ last'.exit = 0
           /\ UNCHANGED << branches, registry, dirs, head >> ]_vars

C21_Witness ==
    /\ last.cmd = "clean" /\ last.afterClean /\ last.exit = 0
    /\ OpNames(last.ops) = { "delete-branch" }
    /\ FailedOps(last.ops) = { "delete-branch" }
    /\ BranchName(last.arg) \notin branches
    /\ \E id \in AllIds \ { last.arg } : HasSession(branches, registry, id)

\* C22: new leaves the branch checked out in the main checkout as it was,
\* with and without a source branch override
C22_MainCheckoutKept ==
    [][ last'.cmd = "new" => head' = head ]_vars

\* the place of a step in sync
SyncRank(op) ==
    IF op = "switch" THEN 1 ELSE IF op = "remote" THEN 2 ELSE IF op = "upstream" THEN 3
    ELSE IF op = "fetch" THEN 4 ELSE IF op = "pull" THEN 5 ELSE 6

\* the log holds a successful operation of a kind
Succeeded(ops, kind) == \E i \in 1..Len(ops) : ops[i].op = kind /\ ops[i].ok

\* the log tells that the remote lookup found a remote
RemoteFound(ops) == \E i \in 1..Len(ops) : ops[i].op = "remote" /\ ops[i].tgt # EMPTY

\* C23: the steps of sync are issued in the order switch, remote lookup,
\* fetch, pull; the fetch is issued only after a successful switch and a
\* remote lookup that found a remote; the pull is issued exactly when the
\* fetch succeeded and the source branch has an upstream, so never after a
\* failed fetch
C23_SyncOrder ==
    last.cmd = "new"
    => /\ \A i \in 1..Len(last.ops), j \in 1..Len(last.ops) :
             i < j => SyncRank(last.ops[i].op) < SyncRank(last.ops[j].op)
                      \/ SyncRank(last.ops[j].op) = 6
       /\ "fetch" \in OpNames(last.ops)
             => Succeeded(last.ops, "switch") /\ RemoteFound(last.ops)
       /\ "pull" \in OpNames(last.ops)
             <=> Succeeded(last.ops, "fetch") /\ Succeeded(last.ops, "upstream")
       /\ "fetch" \in FailedOps(last.ops) => "pull" \notin OpNames(last.ops)

C23_Witness ==
    /\ last.cmd = "new"
    /\ Succeeded(last.ops, "switch") /\ RemoteFound(last.ops)
    /\ Succeeded(last.ops, "fetch")
    /\ "upstream" \in FailedOps(last.ops)
    /\ "pull" \notin OpNames(last.ops)
    /\ last.exit = 0

\* C24: new issues create-branch only when the branch of the session does
\* not exist, and gives it the source branch as start point: the override
\* when one was given, the branch checked out at the start otherwise; a
\* failed create-branch ends new with a non-zero exit, no worktree-add and
\* neither branch nor worktree of the session added
C24_BranchCreation ==
    [][ last'.cmd = "new"
        => /\ "create-branch" \in OpNames(last'.ops)
                 => /\ BranchName(last'.arg) \notin branches
                    /\ last'.forked =
                           (IF last'.override # EMPTY THEN last'.override ELSE head)
           /\ "create-branch" \in FailedOps(last'.ops)
                 => /\ last'.exit # 0 /\ ~last'.launched
                    /\ "worktree-add" \notin OpNames(last'.ops)
                    /\ branches' = branches /\ registry' = registry ]_vars

C24_Witness ==
    /\ last.cmd = "new" /\ last.override = DEV /\ last.forked = DEV
    /\ "create-branch" \in FailedOps(last.ops)
    /\ last.exit = 1
    /\ "worktree-add" \notin OpNames(last.ops)
    /\ BranchName(last.arg) \notin branches

\* C25: resume and list, whatever their argument and whether they succeed
\* or fail, issue nothing but the listing of the worktrees and leave the
\* branches, the registry, the directories, the checkout and the ignore
\* file as they were
C25_ReadOnly ==
    [][ last'.cmd \in { "resume", "list" }
        => /\ OpNames(last'.ops) \subseteq { "worktree-list" }
           /\ UNCHANGED << branches, registry, dirs, head, gitignore >> ]_vars

C25_Witness ==
    /\ last.cmd = "resume" /\ last.exit = 1
    /\ BranchName(last.arg) \in branches
    /\ \E wt \in RecordsOn(registry, BranchName(last.arg)) : wt.path \notin dirs
    /\ \E wt \in registry : wt.path = ForeignPath

\* the processes whose log holds a successful operation of a kind
Winners(kind) == { p \in DOMAIN race.procs : Succeeded(race.procs[p].ops, kind) }

\* the process has ended
Ended(p) == race.procs[p].pc \in { "done", "failed" }

\* C26: while several new of one identifier run at the same time, at most
\* one of them creates the branch and at most one adds a worktree, so the
\* registry never holds two worktrees of the branch; a process whose
\* create-branch failed, having seen the branch absent, is aborted with
\* exit 1 and adds no worktree, and of the processes that ended with exit 0
\* the session is whole
C26_ConcurrentCreate ==
    pstate = "race"
    => /\ Cardinality(Winners("create-branch")) <= 1
       /\ Cardinality(Winners("worktree-add")) <= 1
       /\ Cardinality(RecordsOn(registry, BranchName(race.id))) <= 1
       /\ \A p \in DOMAIN race.procs :
             LET me == race.procs[p]
             IN /\ "create-branch" \in FailedOps(me.ops)
                      => /\ me.pc = "failed" /\ me.exit = 1
                         /\ "worktree-add" \notin OpNames(me.ops)
                /\ me.pc = "done"
                      => me.exit = 0 /\ HasSession(branches, registry, race.id)

C26_Witness ==
    /\ pstate = "race"
    /\ \A p \in DOMAIN race.procs : Ended(p)
    /\ \A p \in DOMAIN race.procs : "create-branch" \in OpNames(race.procs[p].ops)
    /\ \E p \in DOMAIN race.procs :
          /\ race.procs[p].pc = "failed" /\ "create-branch" \in FailedOps(race.procs[p].ops)
    /\ \E p \in DOMAIN race.procs : race.procs[p].pc = "done"
    /\ HasSession(branches, registry, race.id)

\* C27: after init the ignore file passes the guard of new, whatever it
\* held before (absent, empty, without a newline at the end), with what it
\* held before kept at its start; and an init run on a file that passes
\* the guard, as every second init is, leaves it as it was
C27_InitIdempotent ==
    [][ last'.cmd = "init"
        => /\ last'.exit = 0
           /\ gitignore'.exists
           /\ IgnoresWorktrees(gitignore') /\ CheckGitignore(gitignore')
           /\ StartsWith(gitignore'.content, gitignore.content)
           /\ IgnoresWorktrees(gitignore) => gitignore' = gitignore ]_vars

C27_Witness ==
    /\ last.cmd = "init"
    /\ gitignore.content = <<"x", NL, NL>> \o INIT_COMMENT \o << NL >> \o IGNORE_ENTRY \o << NL >>

\* the operations of a log, other than one kind, that failed for an outside
\* reason
OtherFaults(ops, kind) == { i \in 1..Len(ops) : ops[i].fault /\ ops[i].op # kind }

\* the draft's fetch did not go through: it failed, or there is no origin
DraftFetchFailed(ops) == FailedOn(ops, "fetch", ORIGIN)

\* C28: in the typer draft a failed fetch, or no remote at all, does not
\* abort new: the branch claude-wt-<suffix> and its worktree are there after
\* the command as long as nothing else fails
C28_DraftFetchTolerated ==
    [][ /\ last'.cmd = "draft-new"
        /\ DraftFetchFailed(last'.ops)
        /\ OtherFaults(last'.ops, "fetch") = { }
        => /\ last'.exit = 0
           /\ BranchName(last'.arg) \in branches'
           /\ DraftWtPath(BranchName(last'.arg)) \in RegPaths(registry') ]_vars

====
